---- MODULE Spec2Model ----
(***************************************************************************)
(* A model of anakinls/server.py: the document handle cache (get_script,   *)
(* did_open, did_change, did_close), the validation pass (_validate,       *)
(* _mypy_check and the per-folder option caches), the configuration        *)
(* handler, the diff-to-edit conversion (_get_text_edits), the code action *)
(* (code_action, _get_document_changes), and the functions that compute    *)
(* diagnostic ranges and workspace folders.                                *)
(***************************************************************************)
EXTENDS Integers, Sequences, FiniteSets, TLC

\* ------------------------------------------------------------------ bounds
\* Number of Script objects that can be constructed in one run.
MaxHandles == 2
\* Longest file content (in characters) a refactoring changes.
MaxLen == 3
\* Most lines mypy prints in one run.
MaxLines == 3
MaxNames == 4

\* ------------------------------------------------------------- the universe
\* A URI is a sequence of characters; element 1 stands for the "file://" scheme.
SCHEME == "file://"
UriA == <<SCHEME, "a", "x">>
UriB == <<SCHEME, "b">>
URIs == {UriA, UriB}
\* Registered workspace folders (ls.workspace.folders) and the workspace root.
FolderURIs == {<<SCHEME, "a">>}
RootPath == <<>>

\* The texts a document can have: the file's content and an edited one.
Texts == {1, 2}
\* The content of the file behind a URI, read when the document is not open.
DiskText(u) == 1

\* "no Script": scripts.get(uri) is None / the key is absent.
None == [id |-> 0, code |-> 0]

VARIABLES
    documents,          \* ls.workspace.documents: open documents in insertion order
    scripts,            \* scripts: uri -> Script (None when the key is absent)
    nextId,             \* identity of the next Script object constructed
    config,             \* config
    pycodestyleOptions, \* pycodestyleOptions: folder path -> options
    mypyConfigs,        \* mypyConfigs: folder path -> config file name
    published,          \* the diagnostics the client holds, per uri
    op,                 \* the handler that ran last: [name, uri]
    ret,                \* what get_script returned in that handler
    raised,             \* whether that handler ended with an exception
    pubs,               \* the publish_diagnostics calls of that handler
    msgs,               \* the show_message calls of that handler
    stages,             \* the validation stages that handler ran
    evicted,            \* per uri, the Scripts cached when a didClose arrived
    notified,           \* the config keys the notification of that handler had
    computed,           \* the option-cache entries that handler computed
    notification,       \* the params that handler got, when a config change
    \* _get_text_edits, one call:
    old_code,           \* changes._module_node.get_code()
    new_code,           \* changes.get_new_code()
    old_lines,          \* split_lines(old_code, keepends=True)
    new_lines,          \* split_lines(new_code, keepends=True)
    consumed,           \* the lines of old_lines, new_lines the differ has passed
    kind,               \* line[0] of the differ's latest line
    line_number,
    start,
    replace_lines,
    edit_lines,         \* lines
    edits,              \* result
    pc,                 \* "idle", "loop" (in the for loop), "done" (returned);
                        \* in code_action also "files" and "returned"
    runs,               \* the changed runs of the differ's lines so far
    \* code_action, one request:
    params,             \* the request: its document and whether it is a selection
    refactoring,        \* what script.inline answered
    file_no,            \* the item of get_changed_files() the loop is at
    document_changes,   \* result of _get_document_changes
    action,             \* what code_action returned
    \* one call of a function that keeps no state:
    call,               \* the function and its arguments
    out                 \* its result

svars == <<documents, scripts, nextId, config, pycodestyleOptions, mypyConfigs,
           published, op, ret, raised, pubs, msgs, stages, evicted,
           notified, computed, notification>>

evars == <<old_code, new_code, old_lines, new_lines, consumed, kind,
           line_number, start, replace_lines, edit_lines, edits, pc, runs>>

rvars == <<params, refactoring, file_no, document_changes, action>>

pvars == <<call, out>>

vars == <<svars, evars, rvars, pvars>>

\* ------------------------------------------------------------- small helpers
Range(s) == {s[i] : i \in 1..Len(s)}

SeqsUpTo(S, n) == UNION {[1..k -> S] : k \in 0..n}

IsPrefix(p, s) == Len(p) <= Len(s) /\ SubSeq(s, 1, Len(p)) = p

\* pygls.uris.to_fs_path: drops the scheme of a file URI.
to_fs_path(uri) == Tail(uri)

\* What the client holds for a uri before the first publish_diagnostics.
Unpublished == [has |-> FALSE, diags |-> <<>>]
NotCalled == [id |-> -1, code |-> 0]

\* The handler is not did_change_configuration.
NoNotification == [present |-> FALSE, ns |-> FALSE, supplied |-> {"none"}]
FolderPaths == {to_fs_path(f) : f \in FolderURIs} \cup {RootPath}
NoOptions == [paths |-> <<"none">>, config_file |-> "none"]
NoConfig == "absent"

\* The state a handler works on, as one record.
St == [documents |-> documents, scripts |-> scripts, nextId |-> nextId,
       config |-> config, pycodestyleOptions |-> pycodestyleOptions,
       mypyConfigs |-> mypyConfigs, published |-> published, op |-> op,
       ret |-> ret, raised |-> raised, pubs |-> pubs, msgs |-> msgs,
       stages |-> stages, evicted |-> evicted, notified |-> notified,
       computed |-> computed, notification |-> notification]

\* The handler's state becomes the server's state.
CommitServer(st) ==
    /\ documents' = st.documents
    /\ scripts' = st.scripts
    /\ nextId' = st.nextId
    /\ config' = st.config
    /\ pycodestyleOptions' = st.pycodestyleOptions
    /\ mypyConfigs' = st.mypyConfigs
    /\ published' = st.published
    /\ op' = st.op
    /\ ret' = st.ret
    /\ raised' = st.raised
    /\ pubs' = st.pubs
    /\ msgs' = st.msgs
    /\ stages' = st.stages
    /\ evicted' = st.evicted
    /\ notified' = st.notified
    /\ computed' = st.computed
    /\ notification' = st.notification

Commit(st) == CommitServer(st) /\ UNCHANGED <<evars, rvars, pvars>>

\* A handler starts: the per-handler observations are reset.
Begin(st, name, uri) ==
    [st EXCEPT !.op = [name |-> name, uri |-> uri], !.ret = NotCalled,
               !.raised = FALSE, !.pubs = <<>>, !.msgs = <<>>, !.stages = <<>>,
               !.notified = {}, !.computed = <<>>,
               !.notification = NoNotification]

\* ------------------------------------------------------- the document store
IsOpen(docs, uri) == \E i \in 1..Len(docs) : docs[i].uri = uri

\* ls.workspace.get_document(uri).source: the open document's text, or the
\* file's content when the document is not open.
Source(docs, uri) ==
    IF IsOpen(docs, uri)
    THEN (CHOOSE d \in Range(docs) : d.uri = uri).source
    ELSE DiskText(uri)

\* pygls put_document / update_document / remove_document, which run before
\* the server's own handler of the same notification.
put_document(docs, uri, text) == Append(docs, [uri |-> uri, source |-> text])

update_document(docs, uri, text) ==
    [i \in 1..Len(docs) |->
        IF docs[i].uri = uri THEN [uri |-> uri, source |-> text] ELSE docs[i]]

remove_document(docs, uri) == SelectSeq(docs, LAMBDA d : d.uri # uri)

\* ------------------------------------------------------ the handle cache
\* Script(code=document.source, path=document.path, ...): a new object, bound
\* to the text the document store holds at the time of the call.
Script(st, uri) == [id |-> st.nextId, code |-> Source(st.documents, uri)]

\* get_script as it would be if `update` were ignored.
get_script_keep_on_update(st, uri, update, ok) ==
    LET result == st.scripts[uri]
    IN  IF result # None
        THEN [st EXCEPT !.ret = result]
        ELSE IF ~ok
             THEN [st EXCEPT !.raised = TRUE]
             ELSE LET s == Script(st, uri)
                  IN  [st EXCEPT !.scripts[uri] = s, !.nextId = @ + 1, !.ret = s]

\* get_script as it would be if the new Script were stored under every key.
get_script_wrong_key(st, uri, update, ok) ==
    LET result == IF update THEN None ELSE st.scripts[uri]
    IN  IF result # None
        THEN [st EXCEPT !.ret = result]
        ELSE IF ~ok
             THEN [st EXCEPT !.raised = TRUE]
             ELSE LET s == Script(st, uri)
                  IN  [st EXCEPT !.scripts = [u \in URIs |-> s],
                                 !.nextId = @ + 1, !.ret = s]

\* get_script(ls, uri, update): `ok` tells whether constructing the Script
\* succeeds; when it does not, the exception leaves get_script before
\* scripts[uri] is assigned.
get_script(st, uri, update, ok) ==
    LET result == IF update THEN None ELSE st.scripts[uri]
    IN  IF result # None
        THEN [st EXCEPT !.ret = result]
        ELSE IF ~ok
             THEN [st EXCEPT !.raised = TRUE]
             ELSE LET s == Script(st, uri)
                  IN  [st EXCEPT !.scripts[uri] = s, !.nextId = @ + 1, !.ret = s]

\* The identity of the Script the cache holds for uri, if any.
Cached(cache, uri) == {cache[uri].id} \ {None.id}

\* did_close as it would be if nothing were deleted.
did_close_keep(st, uri) == st

\* did_close as it would be if the other entries were deleted instead.
did_close_wrong_key(st, uri) ==
    [st EXCEPT !.scripts = [u \in URIs |-> IF u = uri THEN @[u] ELSE None]]

\* did_close: del scripts[uri], a KeyError is swallowed.
did_close(st, uri) ==
    IF st.scripts[uri] = None
    THEN st
    ELSE [st EXCEPT !.scripts[uri] = None]

\* did_change: get_script(ls, uri, True).
did_change(st, uri, ok) == get_script(st, uri, TRUE, ok)

\* ------------------------------------------------- per-folder option caches
\* ls.workspace of the server: its folders and its root path.
Workspace == [folders |-> FolderURIs, root_path |-> RootPath]

\* _get_workspace_folder_path as it would be without reverse=True.
_get_workspace_folder_path_shortest(ls, uri) ==
    LET folders == {f \in ls.folders : IsPrefix(f, uri)}
    IN  IF folders # {}
        THEN to_fs_path(CHOOSE f \in folders :
                            \A g \in folders : Len(f) <= Len(g))
        ELSE ls.root_path

\* _get_workspace_folder_path: the folder URIs the document URI starts with,
\* sorted by length, longest first; the first as a path, or the workspace
\* root when there is none. Two of them of one length are the same URI.
_get_workspace_folder_path(ls, uri) ==
    LET folders == {f \in ls.folders : IsPrefix(f, uri)}
    IN  IF folders # {}
        THEN to_fs_path(CHOOSE f \in folders :
                            \A g \in folders : Len(g) <= Len(f))
        ELSE ls.root_path

\* CodestyleStyleGuide(paths=[folder], config_file=...).options
StyleGuideOptions(folder, config_file) ==
    [paths |-> folder, config_file |-> config_file]

\* An option-cache entry is computed.
Computes(st, cache, folder) ==
    [st EXCEPT !.computed = Append(@, [cache |-> cache, folder |-> folder])]

\* get_pycodestyle_options as it would be if the cache were never read.
get_pycodestyle_options_uncached(st, uri) ==
    LET folder == _get_workspace_folder_path(Workspace, uri)
        result == StyleGuideOptions(folder, st.config["pycodestyle_config"])
    IN  [st |-> [Computes(st, "pycodestyle", folder)
                     EXCEPT !.pycodestyleOptions[folder] = result],
         result |-> result]

\* get_pycodestyle_options: [st, result]
get_pycodestyle_options(st, uri) ==
    LET folder == _get_workspace_folder_path(Workspace, uri)
        cached == st.pycodestyleOptions[folder]
    IN  IF cached # NoOptions
        THEN [st |-> st, result |-> cached]
        ELSE LET result ==
                     StyleGuideOptions(folder, st.config["pycodestyle_config"])
             IN  [st |-> [Computes(st, "pycodestyle", folder)
                              EXCEPT !.pycodestyleOptions[folder] = result],
                  result |-> result]

\* get_mypy_config: `found` is the config file the file system holds for the
\* folder ("" when none of CONFIG_FILES exists).
get_mypy_config(st, uri, found) ==
    LET folder == _get_workspace_folder_path(Workspace, uri)
    IN  IF st.mypyConfigs[folder] # NoConfig
        THEN [st |-> st, result |-> st.mypyConfigs[folder]]
        ELSE [st |-> [Computes(st, "mypy", folder)
                          EXCEPT !.mypyConfigs[folder] = found],
              result |-> found]

\* ------------------------------------------------------------ diagnostics
Diagnostic(source, severity, code) ==
    [source |-> source, severity |-> severity, code |-> code]

\* ls.publish_diagnostics(uri, result)
publish_diagnostics(st, uri, result) ==
    [st EXCEPT !.published[uri] = [has |-> TRUE, diags |-> result],
               !.pubs = Append(@, [uri |-> uri, diags |-> result])]

\* ls.show_message(text, level)
show_message(st, level) == [st EXCEPT !.msgs = Append(@, level)]

\* The list comprehension over script.get_syntax_errors().
SyntaxDiagnostics(syn) ==
    [i \in 1..Len(syn) |-> Diagnostic("jedi", "Error", syn[i])]

\* PyflakesReporter: one Diagnostic per callback of pyflakes.
PyflakesReport(ev, errors) ==
    IF ev.kind = "flake"
    THEN Diagnostic("pyflakes",
                    IF ev.cls \in errors THEN "Error" ELSE "Warning", ev.cls)
    ELSE Diagnostic("pyflakes", "Error", ev.cls)

PyflakesDiagnostics(events, errors) ==
    [i \in 1..Len(events) |-> PyflakesReport(events[i], errors)]

\* CodestyleReport.error: nothing for an ignored or expected code.
RECURSIVE CodestyleDiagnostics(_)
CodestyleDiagnostics(findings) ==
    IF findings = <<>>
    THEN <<>>
    ELSE LET f == Head(findings)
         IN  (IF f.ignored
              THEN <<>>
              ELSE <<Diagnostic("pycodestyle", "Warning", f.code)>>)
             \o CodestyleDiagnostics(Tail(findings))

\* ----------------------------------------------------------------- mypy
\* The loop of _mypy_check over the lines of stdout: [result, raised].
\* A line has fewer than five fields, or names another file, or its row or
\* column is not a number (int() raises ValueError), or it is a finding.
RECURSIVE ParseMypyLines(_, _)
ParseMypyLines(lines, result) ==
    IF lines = <<>>
    THEN [result |-> result, raised |-> FALSE]
    ELSE LET line == Head(lines)
         IN  IF line.fields < 5
             THEN ParseMypyLines(Tail(lines), result)
             ELSE IF ~line.own
             THEN ParseMypyLines(Tail(lines), result)
             ELSE IF ~line.numeric
             THEN [result |-> result, raised |-> TRUE]
             ELSE ParseMypyLines(
                      Tail(lines),
                      Append(result,
                             Diagnostic("mypy",
                                        IF line.err_type = "note"
                                        THEN "Hint" ELSE "Warning",
                                        line.err_type)))

\* _mypy_check: [st, result, raised, outcome]. m.fails is "import" when
\* `from mypy import api` raises, "run" when api.run raises, "no" otherwise;
\* m.stderr tells whether lines[1] is non-empty. A raise after Diagnostics
\* were appended leaves them in result, the caller's list.
_mypy_check(st, uri, result, m) ==
    IF m.fails = "import"
    THEN [st |-> st, result |-> result, raised |-> TRUE, outcome |-> "raised"]
    ELSE LET c == get_mypy_config(st, uri, m.found)
         IN  IF m.fails = "run"
             THEN [st |-> c.st, result |-> result, raised |-> TRUE,
                   outcome |-> "raised"]
             ELSE IF m.stderr
             THEN [st |-> show_message(c.st, "Error"), result |-> result,
                   raised |-> FALSE, outcome |-> "stderr"]
             ELSE LET r == ParseMypyLines(m.stdout, result)
                  IN  [st |-> c.st, result |-> r.result, raised |-> r.raised,
                       outcome |-> IF r.raised THEN "raised" ELSE "ok"]

\* ------------------------------------------------------- the validation pass
\* A stage of the pass has run: what it appended to result and how it ended.
Stage(st, name, diags, outcome) ==
    [st EXCEPT !.stages =
        Append(@, [name |-> name, diags |-> diags, outcome |-> outcome])]

\* The diagnostics a stage appended to result.
Appended(before, after) == SubSeq(after, Len(before) + 1, Len(after))

\* The tail as it would be if an empty result were not published.
ValidateTail_skip_empty(st, uri, result, m) ==
    IF st.config["mypy_enabled"]
    THEN LET c == _mypy_check(st, uri, result, m)
             s == Stage(IF c.raised THEN show_message(c.st, "Warning") ELSE c.st,
                        "mypy", Appended(result, c.result), c.outcome)
         IN  IF c.result # <<>> THEN publish_diagnostics(s, uri, c.result) ELSE s
    ELSE IF result # <<>> THEN publish_diagnostics(st, uri, result) ELSE st

\* The part of _validate after pycodestyle: the optional mypy stage inside
\* try/except, then publish_diagnostics.
ValidateTail(st, uri, result, m) ==
    IF st.config["mypy_enabled"]
    THEN LET c == _mypy_check(st, uri, result, m)
             s == Stage(IF c.raised THEN show_message(c.st, "Warning") ELSE c.st,
                        "mypy", Appended(result, c.result), c.outcome)
         IN  publish_diagnostics(s, uri, c.result)
    ELSE publish_diagnostics(st, uri, result)

\* The checkers of _validate, run when the Script has no syntax error:
\* pyflakes, pycodestyle with the folder's cached options, then the tail.
ValidateCheckers(st, uri, result, inp) ==
    LET r1 == result
              \o PyflakesDiagnostics(inp.flakes, st.config["pyflakes_errors"])
        s1 == Stage(st, "pyflakes", Appended(result, r1), "ok")
        o == get_pycodestyle_options(s1, uri)
        r2 == r1 \o CodestyleDiagnostics(inp.style)
        s2 == Stage(o.st, "pycodestyle", Appended(r1, r2), "ok")
    IN  ValidateTail(s2, uri, r2, inp.mypy)

\* _validate as it would be without the return after the syntax errors.
_validate_no_return(st, uri, inp) ==
    LET g == get_script(st, uri, FALSE, inp.ok)
        result == SyntaxDiagnostics(inp.syn)
        s0 == Stage(g, "jedi", result, "ok")
    IN  IF g.raised
        THEN g
        ELSE IF result # <<>>
        THEN ValidateCheckers(publish_diagnostics(s0, uri, result),
                              uri, result, inp)
        ELSE ValidateCheckers(s0, uri, result, inp)

\* _validate(ls, uri). inp holds what the collaborators answer in this pass:
\* ok (Script construction succeeds), syn (get_syntax_errors), flakes (the
\* callbacks of pyflakes), style (the callbacks of pycodestyle), mypy.
_validate(st, uri, inp) ==
    LET g == get_script(st, uri, FALSE, inp.ok)
        result == SyntaxDiagnostics(inp.syn)
        s0 == Stage(g, "jedi", result, "ok")
    IN  IF g.raised
        THEN g
        ELSE IF result # <<>>
        THEN publish_diagnostics(s0, uri, result)
        ELSE ValidateCheckers(s0, uri, result, inp)

\* The loop as it would be if it ended after the first document.
ValidateAll_first_only(st, docs, inps) ==
    IF docs = <<>> \/ st.raised
    THEN st
    ELSE _validate([st EXCEPT !.stages = <<>>],
                   Head(docs).uri, inps[Head(docs).uri])

\* did_change_configuration's loop: _validate for every document of the
\* workspace, in the order of ls.workspace.documents; an exception ends it.
RECURSIVE ValidateAll(_, _, _)
ValidateAll(st, docs, inps) ==
    IF docs = <<>> \/ st.raised
    THEN st
    ELSE ValidateAll(_validate([st EXCEPT !.stages = <<>>],
                               Head(docs).uri, inps[Head(docs).uri]),
                     Tail(docs), inps)

ConfigKeys ==
    {"pyflakes_errors", "pycodestyle_config", "help_on_hover", "mypy_enabled"}

\* did_change_configuration(ls, settings). settings.present: settings.settings
\* is truthy; settings.ns: it has the attribute anakinls; settings.supplied:
\* the keys anakinls has; settings.values: their values.
did_change_configuration(st, settings, inps) ==
    IF ~settings.present \/ ~settings.ns
    THEN st
    ELSE LET changed == settings.supplied \ {"help_on_hover"}
             c1 == [st EXCEPT !.config =
                        [k \in ConfigKeys |->
                            IF k \in settings.supplied
                            THEN settings.values[k] ELSE st.config[k]]]
             c2 == IF "pycodestyle_config" \in changed
                   THEN [c1 EXCEPT !.pycodestyleOptions =
                             [f \in FolderPaths |-> NoOptions]]
                   ELSE c1
             c3 == IF "mypy_enabled" \in changed
                   THEN [c2 EXCEPT !.mypyConfigs =
                             [f \in FolderPaths |-> NoConfig]]
                   ELSE c2
         IN  IF changed # {}
             THEN ValidateAll(c3, c3.documents, inps)
             ELSE c3

\* --------------------------------------------- what the collaborators answer
\* script.get_syntax_errors()
SyntaxRuns == {<<>>, <<"E1">>}

Flake(cls) == [kind |-> "flake", cls |-> cls]
\* The callbacks pyflakes_check makes on the reporter.
FlakeRuns == {<<>>, <<Flake("UnusedImport"), Flake("UndefinedName")>>}

\* The calls of CodestyleReport.error; `ignored` is the answer of
\* self._ignore_code(code) or code in self.expected.
StyleRuns ==
    {<<>>,
     <<[code |-> "W291", ignored |-> TRUE], [code |-> "E501", ignored |-> FALSE]>>}

MypyLine(fields, own, numeric, err_type) ==
    [fields |-> fields, own |-> own, numeric |-> numeric, err_type |-> err_type]
LineError == MypyLine(5, TRUE, TRUE, "error")
LineNote == MypyLine(5, TRUE, TRUE, "note")
LineShort == MypyLine(4, TRUE, TRUE, "error")
LineOther == MypyLine(5, FALSE, TRUE, "error")
LineBadRow == MypyLine(5, TRUE, FALSE, "error")

\* The config file the file system holds for a folder (get_mypy_config).
MypyConfigFile == "mypy.ini"

MypyRun(fails, stderr, stdout) ==
    [fails |-> fails, stderr |-> stderr, stdout |-> stdout,
     found |-> MypyConfigFile]
MypyQuiet == MypyRun("no", FALSE, <<>>)
\* What the mypy stage meets: the import or api.run raises, mypy writes to
\* its error stream, or it prints lines.
MypyRuns ==
    {MypyRun("import", FALSE, <<>>), MypyRun("run", FALSE, <<>>),
     MypyRun("no", TRUE, <<LineError>>), MypyQuiet,
     MypyRun("no", FALSE, <<LineError, LineNote>>),
     MypyRun("no", FALSE, <<LineShort, LineOther, LineNote>>),
     MypyRun("no", FALSE, <<LineError, LineBadRow, LineNote>>)}

PassInput(ok, syn, flakes, style, mypy) ==
    [ok |-> ok, syn |-> syn, flakes |-> flakes, style |-> style, mypy |-> mypy]

\* A pass with a syntax error and findings of every checker.
SyntaxErrorPass ==
    PassInput(TRUE, <<"E1">>, <<Flake("UndefinedName")>>,
              <<[code |-> "E501", ignored |-> FALSE]>>,
              MypyRun("no", FALSE, <<LineError, LineNote>>))

\* The answers of one validation pass: the Script cannot be constructed; or
\* it reports syntax errors, whatever the checkers would find; or it reports
\* none and the checkers answer in every way.
ValidateInputs ==
    {PassInput(FALSE, <<>>, <<>>, <<>>, MypyQuiet)}
    \cup {PassInput(TRUE, <<"E1">>, fl, sty, MypyQuiet) :
             fl \in FlakeRuns, sty \in StyleRuns}
    \cup {SyntaxErrorPass}
    \cup {PassInput(TRUE, <<>>, fl, sty, m) :
             fl \in FlakeRuns, sty \in StyleRuns, m \in MypyRuns}

\* The answers that matter to the handle cache: does construction succeed.
CacheInputs == {PassInput(ok, <<>>, <<>>, <<>>, MypyQuiet) : ok \in BOOLEAN}

\* The answers of the passes a configuration change starts.
ConfigPassInputs == CacheInputs \cup {SyntaxErrorPass}

Settings(present, ns, supplied, values) ==
    [present |-> present, ns |-> ns, supplied |-> supplied, values |-> values]

DefaultConfig ==
    [pyflakes_errors |-> {"UndefinedName"}, pycodestyle_config |-> "None",
     help_on_hover |-> TRUE, mypy_enabled |-> FALSE]

\* The notifications workspace/didChangeConfiguration can carry.
SettingsRuns ==
    {Settings(FALSE, FALSE, {}, DefaultConfig),
     Settings(TRUE, FALSE, {}, DefaultConfig),
     Settings(TRUE, TRUE, {"mypy_enabled"},
              [DefaultConfig EXCEPT !.mypy_enabled = TRUE]),
     Settings(TRUE, TRUE, {"mypy_enabled", "help_on_hover"},
              [DefaultConfig EXCEPT !.help_on_hover = FALSE]),
     Settings(TRUE, TRUE, {"help_on_hover"},
              [DefaultConfig EXCEPT !.help_on_hover = FALSE]),
     Settings(TRUE, TRUE, {"pycodestyle_config", "pyflakes_errors"},
              [DefaultConfig EXCEPT !.pycodestyle_config = "setup.cfg",
                                    !.pyflakes_errors = {}])}

\* The answers of the passes a configuration change starts in the
\* two-document machine.
SettingsPassInputs ==
    {PassInput(FALSE, <<>>, <<>>, <<>>, MypyQuiet),
     PassInput(TRUE, <<>>, <<Flake("UndefinedName")>>, <<>>, MypyQuiet)}

\* The notifications the two-document machine receives.
CacheSettings ==
    {Settings(FALSE, FALSE, {}, DefaultConfig),
     Settings(TRUE, TRUE, {"pycodestyle_config"},
              [DefaultConfig EXCEPT !.pycodestyle_config = "setup.cfg"])}

\* The server after its module is loaded: no document, empty caches.
ServerInit ==
    /\ documents = <<>>
    /\ scripts = [u \in URIs |-> None]
    /\ nextId = 1
    /\ config = DefaultConfig
    /\ pycodestyleOptions = [f \in FolderPaths |-> NoOptions]
    /\ mypyConfigs = [f \in FolderPaths |-> NoConfig]
    /\ published = [u \in URIs |-> Unpublished]
    /\ op = [name |-> "init", uri |-> <<>>]
    /\ ret = NotCalled
    /\ raised = FALSE
    /\ pubs = <<>>
    /\ msgs = <<>>
    /\ stages = <<>>
    /\ evicted = [u \in URIs |-> {}]
    /\ notified = {}
    /\ computed = <<>>
    /\ notification = NoNotification

\* No code_action request is being handled.
NotReturned == [returned |-> FALSE, none |-> FALSE, actions |-> <<>>]
NoParams == [uri |-> <<>>, selection |-> FALSE]
NoRefactoring == [error |-> FALSE, files |-> <<>>]

RefactorIdle ==
    /\ params = NoParams
    /\ refactoring = NoRefactoring
    /\ file_no = 0
    /\ document_changes = <<>>
    /\ action = NotReturned

\* No function is being called.
NoCall == [fn |-> "none"]
Pending == [done |-> FALSE]

CallsIdle ==
    /\ call = NoCall
    /\ out = Pending

\* ------------------------------------------------------- _get_text_edits
NL == "\n"
Chars == {"a", "b", NL}
Codes == SeqsUpTo(Chars, MaxLen)

\* parso.split_lines(code, keepends=True): the edit_lines with their terminators;
\* the last line has none and is empty when the code ends with a newline.
RECURSIVE SplitFrom(_, _, _)
SplitFrom(code, k, line) ==
    IF k > Len(code)
    THEN <<line>>
    ELSE IF code[k] = NL
         THEN <<Append(line, NL)>> \o SplitFrom(code, k + 1, <<>>)
         ELSE SplitFrom(code, k + 1, Append(line, code[k]))

split_lines(code) == SplitFrom(code, 1, <<>>)

\* ''.join(edit_lines)
RECURSIVE Join(_)
Join(ls) == IF ls = <<>> THEN <<>> ELSE Head(ls) \o Join(Tail(ls))

\* types.Position(line): character defaults to 0.
Position(line) == [line |-> line, character |-> 0]
\* start = None
NoPosition == [line |-> -1, character |-> 0]

TextEdit(from, to, new_text) ==
    [range |-> [start |-> from, end |-> to], new_text |-> new_text]

\* _append as it would be if every span ended where it starts.
_append_end_at_start(res, st, repl, ln, ls) ==
    Append(res, TextEdit(st, st, Join(ls)))

\* _append as it would be if a replaced span ended one line further.
_append_end_past(res, st, repl, ln, ls) ==
    LET end == IF repl THEN Position(ln + 1) ELSE st
    IN  Append(res, TextEdit(st, end, Join(ls)))

\* _append(): the pending span becomes a TextEdit; it ends at the cursor
\* when edit_lines were removed, and is empty at start otherwise.
_append(res, st, repl, ln, ls) ==
    LET end == IF repl THEN Position(ln) ELSE st
    IN  Append(res, TextEdit(st, end, Join(ls)))

\* A changed run of the differ's lines: the lines between two unchanged
\* lines. `at` is the number of lines of old_lines the differ had passed when
\* the run began, `removed` the number of "- " lines, `inserted` the text of
\* the "+ " lines, `mixed` whether a "+ " line came before a "- " line, `open`
\* whether the run can still grow.
RunOpen(rs) == rs # <<>> /\ rs[Len(rs)].open

Changed(rs, at, k, text) ==
    LET cur == IF RunOpen(rs)
               THEN rs[Len(rs)]
               ELSE [at |-> at, removed |-> 0, inserted |-> <<>>,
                     mixed |-> FALSE, open |-> TRUE]
        nxt == IF k = "-"
               THEN [cur EXCEPT !.removed = @ + 1,
                                !.mixed = @ \/ cur.inserted # <<>>]
               ELSE [cur EXCEPT !.inserted = Append(@, text)]
    IN  IF RunOpen(rs) THEN [rs EXCEPT ![Len(rs)] = nxt] ELSE Append(rs, nxt)

Closed(rs) == IF RunOpen(rs) THEN [rs EXCEPT ![Len(rs)].open = FALSE] ELSE rs

EditsIdle ==
    /\ old_code = <<>>
    /\ new_code = <<>>
    /\ old_lines = <<>>
    /\ new_lines = <<>>
    /\ consumed = [old |-> 0, new |-> 0]
    /\ kind = ""
    /\ line_number = 0
    /\ start = NoPosition
    /\ replace_lines = FALSE
    /\ edit_lines = <<>>
    /\ edits = <<>>
    /\ pc = "idle"
    /\ runs = <<>>

\* _get_text_edits up to the for loop, for every pair of contents.
EditsStart ==
    /\ old_code \in Codes
    /\ new_code \in Codes
    /\ old_lines = split_lines(old_code)
    /\ new_lines = split_lines(new_code)
    /\ consumed = [old |-> 0, new |-> 0]
    /\ kind = ""
    /\ line_number = 0
    /\ start = NoPosition
    /\ replace_lines = FALSE
    /\ edit_lines = <<>>
    /\ edits = <<>>
    /\ pc = "loop"
    /\ runs = <<>>

\* differ.compare yields a line that starts with "? ": continue.
StepHint ==
    /\ pc = "loop"
    /\ kind \in {"-", "+"}
    /\ kind' = "?"
    /\ UNCHANGED <<old_code, new_code, old_lines, new_lines, consumed,
                   line_number, start, replace_lines, edit_lines, edits, pc,
                   runs>>

\* StepRemoved as it would be if every removed line restarted the span.
StepRemoved_restart ==
    /\ pc = "loop"
    /\ old_lines # new_lines
    /\ consumed.old < Len(old_lines)
    /\ kind' = "-"
    /\ runs' = Changed(runs, consumed.old, "-", old_lines[consumed.old + 1])
    /\ consumed' = [consumed EXCEPT !.old = @ + 1]
    /\ start' = Position(line_number)
    /\ replace_lines' = TRUE
    /\ line_number' = line_number + 1
    /\ UNCHANGED <<old_code, new_code, old_lines, new_lines, edit_lines, edits, pc>>

\* StepRemoved as it would be if a removed line emptied the pending payload.
StepRemoved_drops_payload ==
    /\ pc = "loop"
    /\ old_lines # new_lines
    /\ consumed.old < Len(old_lines)
    /\ kind' = "-"
    /\ runs' = Changed(runs, consumed.old, "-", old_lines[consumed.old + 1])
    /\ consumed' = [consumed EXCEPT !.old = @ + 1]
    /\ start' = IF start = NoPosition THEN Position(line_number) ELSE start
    /\ replace_lines' = TRUE
    /\ line_number' = line_number + 1
    /\ edit_lines' = <<>>
    /\ UNCHANGED <<old_code, new_code, old_lines, new_lines, edits, pc>>

\* differ.compare yields "- " and the next line of old_lines; it yields
\* unchanged lines only when the two sequences are equal.
StepRemoved ==
    /\ pc = "loop"
    /\ old_lines # new_lines
    /\ consumed.old < Len(old_lines)
    /\ kind' = "-"
    /\ runs' = Changed(runs, consumed.old, "-", old_lines[consumed.old + 1])
    /\ consumed' = [consumed EXCEPT !.old = @ + 1]
    /\ start' = IF start = NoPosition THEN Position(line_number) ELSE start
    /\ replace_lines' = TRUE
    /\ line_number' = line_number + 1
    /\ UNCHANGED <<old_code, new_code, old_lines, new_lines, edit_lines, edits, pc>>

\* StepInserted as it would be if an inserted line advanced the cursor.
StepInserted_advance ==
    /\ pc = "loop"
    /\ old_lines # new_lines
    /\ consumed.new < Len(new_lines)
    /\ kind' = "+"
    /\ runs' = Changed(runs, consumed.old, "+", new_lines[consumed.new + 1])
    /\ consumed' = [consumed EXCEPT !.new = @ + 1]
    /\ start' = IF start = NoPosition THEN Position(line_number) ELSE start
    /\ edit_lines' = Append(edit_lines, new_lines[consumed.new + 1])
    /\ line_number' = line_number + 1
    /\ UNCHANGED <<old_code, new_code, old_lines, new_lines,
                   replace_lines, edits, pc>>

\* differ.compare yields "+ " and the next line of new_lines.
StepInserted ==
    /\ pc = "loop"
    /\ old_lines # new_lines
    /\ consumed.new < Len(new_lines)
    /\ kind' = "+"
    /\ runs' = Changed(runs, consumed.old, "+", new_lines[consumed.new + 1])
    /\ consumed' = [consumed EXCEPT !.new = @ + 1]
    /\ start' = IF start = NoPosition THEN Position(line_number) ELSE start
    /\ edit_lines' = Append(edit_lines, new_lines[consumed.new + 1])
    /\ UNCHANGED <<old_code, new_code, old_lines, new_lines, line_number,
                   replace_lines, edits, pc>>

\* differ.compare yields "  " and a line both sequences have next.
StepUnchanged ==
    /\ pc = "loop"
    /\ consumed.old < Len(old_lines)
    /\ consumed.new < Len(new_lines)
    /\ old_lines[consumed.old + 1] = new_lines[consumed.new + 1]
    /\ kind' = " "
    /\ runs' = Closed(runs)
    /\ consumed' = [old |-> consumed.old + 1, new |-> consumed.new + 1]
    /\ IF start # NoPosition
       THEN /\ edits' = _append(edits, start, replace_lines, line_number, edit_lines)
            /\ start' = NoPosition
            /\ replace_lines' = FALSE
            /\ edit_lines' = <<>>
       ELSE UNCHANGED <<edits, start, replace_lines, edit_lines>>
    /\ line_number' = line_number + 1
    /\ UNCHANGED <<old_code, new_code, old_lines, new_lines, pc>>

\* Return as it would be if _append were called without a pending span.
Return_flush_always ==
    /\ pc = "loop"
    /\ consumed = [old |-> Len(old_lines), new |-> Len(new_lines)]
    /\ edits' = _append(edits, start, replace_lines, line_number, edit_lines)
    /\ pc' = "done"
    /\ runs' = Closed(runs)
    /\ UNCHANGED <<old_code, new_code, old_lines, new_lines, consumed, kind,
                   line_number, start, replace_lines, edit_lines>>

\* differ.compare is exhausted: the pending span is appended, result returned.
Return ==
    /\ pc = "loop"
    /\ consumed = [old |-> Len(old_lines), new |-> Len(new_lines)]
    /\ edits' = IF start # NoPosition
                 THEN _append(edits, start, replace_lines, line_number, edit_lines)
                 ELSE edits
    /\ pc' = "done"
    /\ runs' = Closed(runs)
    /\ UNCHANGED <<old_code, new_code, old_lines, new_lines, consumed, kind,
                   line_number, start, replace_lines, edit_lines>>

InitEdits ==
    /\ ServerInit
    /\ EditsStart
    /\ RefactorIdle
    /\ CallsIdle

NextEdits ==
    \/ StepHint /\ UNCHANGED <<svars, rvars, pvars>>
    \/ StepRemoved /\ UNCHANGED <<svars, rvars, pvars>>
    \/ StepInserted /\ UNCHANGED <<svars, rvars, pvars>>
    \/ StepUnchanged /\ UNCHANGED <<svars, rvars, pvars>>
    \/ Return /\ UNCHANGED <<svars, rvars, pvars>>

\* One call of _get_text_edits, for every pair of contents and every stream
\* of edit_lines a line diff of the two can yield.
SpecEdits == InitEdits /\ [][NextEdits]_vars

\* ------------------------------------------------------------ code_action
\* pygls.uris.from_fs_path: the file URI of a path.
from_fs_path(path) == <<SCHEME>> \o path

\* The files a refactoring can change and the contents they can have.
FilePaths == {to_fs_path(u) : u \in URIs}
FileCodes == {<<"a">>, <<"a", NL>>, <<"b", NL, "a">>}
ChangedFiles ==
    {[fn |-> fn, old |-> o, new |-> n] :
        fn \in FilePaths, o \in FileCodes, n \in FileCodes}

\* refactoring.get_changed_files().items(): no file, one, or two.
ChangedFileRuns ==
    {<<>>} \cup {<<f>> : f \in ChangedFiles}
    \cup {fs \in [1..2 -> ChangedFiles] : fs[1].fn # fs[2].fn}

\* script.inline(...): RefactoringError, or a Refactoring.
InlineRuns ==
    {[error |-> TRUE, files |-> <<>>]}
    \cup {[error |-> FALSE, files |-> fs] : fs \in ChangedFileRuns}

\* ls.workspace.get_document(uri).version: None unless the document is open.
Version(docs, uri) == IF IsOpen(docs, uri) THEN "version" ELSE "None"

TextDocumentEdit(uri, version, text_edits) ==
    [uri |-> uri, version |-> version, edits |-> text_edits]

\* What code_action returns: None, or a list with one CodeAction.
ReturnedNone == [returned |-> TRUE, none |-> TRUE, actions |-> <<>>]
InlineVariable(changes) ==
    [returned |-> TRUE, none |-> FALSE,
     actions |-> <<[title |-> "Inline variable", kind |-> "refactor.inline",
                    edit |-> [document_changes |-> changes]]>>]

\* code_action up to the call of _get_document_changes: None for a
\* selection; get_script, which can raise; script.inline, None when it
\* raises RefactoringError.
CodeActionBegin ==
    /\ pc = "idle"
    /\ \E uri \in {UriA}, selection \in BOOLEAN, ok \in BOOLEAN, r \in InlineRuns :
           LET st == IF selection
                     THEN Begin(St, "codeAction", uri)
                     ELSE get_script(Begin(St, "codeAction", uri),
                                     uri, FALSE, ok)
           IN  /\ CommitServer(st)
               /\ params' = [uri |-> uri, selection |-> selection]
               /\ refactoring' = IF selection \/ st.raised
                                 THEN NoRefactoring ELSE r
               /\ action' = IF selection \/ (~st.raised /\ r.error)
                            THEN ReturnedNone ELSE NotReturned
               /\ pc' = IF selection \/ st.raised \/ r.error
                        THEN "returned" ELSE "files"
    /\ file_no' = 0
    /\ document_changes' = <<>>
    /\ UNCHANGED <<old_code, new_code, old_lines, new_lines, consumed, kind,
                   line_number, start, replace_lines, edit_lines, edits, runs>>

\* The for loop of _get_document_changes takes the next changed file and
\* _get_text_edits(changes) runs up to its for loop.
NextChangedFile ==
    /\ pc = "files"
    /\ file_no < Len(refactoring.files)
    /\ file_no' = file_no + 1
    /\ old_code' = refactoring.files[file_no + 1].old
    /\ new_code' = refactoring.files[file_no + 1].new
    /\ old_lines' = split_lines(old_code')
    /\ new_lines' = split_lines(new_code')
    /\ consumed' = [old |-> 0, new |-> 0]
    /\ kind' = ""
    /\ line_number' = 0
    /\ start' = NoPosition
    /\ replace_lines' = FALSE
    /\ edit_lines' = <<>>
    /\ edits' = <<>>
    /\ runs' = <<>>
    /\ pc' = "loop"
    /\ UNCHANGED <<params, refactoring, document_changes, action>>

\* AppendGroup as it would be without `if text_edits`.
AppendGroup_always ==
    /\ pc = "done"
    /\ document_changes' =
           LET uri == from_fs_path(refactoring.files[file_no].fn)
           IN  Append(document_changes,
                      TextDocumentEdit(uri, Version(documents, uri), edits))
    /\ pc' = "files"
    /\ UNCHANGED <<params, refactoring, file_no, action>>
    /\ UNCHANGED <<old_code, new_code, old_lines, new_lines, consumed, kind,
                   line_number, start, replace_lines, edit_lines, edits, runs>>

\* _get_text_edits has returned: a TextDocumentEdit is appended when the
\* edit list is not empty.
AppendGroup ==
    /\ pc = "done"
    /\ document_changes' =
           IF edits # <<>>
           THEN LET uri == from_fs_path(refactoring.files[file_no].fn)
                IN  Append(document_changes,
                           TextDocumentEdit(uri, Version(documents, uri), edits))
           ELSE document_changes
    /\ pc' = "files"
    /\ UNCHANGED <<params, refactoring, file_no, action>>
    /\ UNCHANGED <<old_code, new_code, old_lines, new_lines, consumed, kind,
                   line_number, start, replace_lines, edit_lines, edits, runs>>

\* _get_document_changes returns: code_action returns one CodeAction when
\* there are document changes, None otherwise.
CodeActionReturn ==
    /\ pc = "files"
    /\ file_no = Len(refactoring.files)
    /\ action' = IF document_changes # <<>>
                 THEN InlineVariable(document_changes)
                 ELSE ReturnedNone
    /\ pc' = "returned"
    /\ UNCHANGED <<params, refactoring, file_no, document_changes>>
    /\ UNCHANGED <<old_code, new_code, old_lines, new_lines, consumed, kind,
                   line_number, start, replace_lines, edit_lines, edits, runs>>

NextRefactor ==
    \/ CodeActionBegin /\ UNCHANGED pvars
    \/ NextChangedFile /\ UNCHANGED <<svars, pvars>>
    \/ StepHint /\ UNCHANGED <<svars, rvars, pvars>>
    \/ StepRemoved /\ UNCHANGED <<svars, rvars, pvars>>
    \/ StepInserted /\ UNCHANGED <<svars, rvars, pvars>>
    \/ StepUnchanged /\ UNCHANGED <<svars, rvars, pvars>>
    \/ Return /\ UNCHANGED <<svars, rvars, pvars>>
    \/ AppendGroup /\ UNCHANGED <<svars, pvars>>
    \/ CodeActionReturn /\ UNCHANGED <<svars, pvars>>

InitRefactor ==
    /\ ServerInit
    /\ EditsIdle
    /\ RefactorIdle
    /\ CallsIdle

\* One code_action request, for every answer of script.inline.
SpecRefactor == InitRefactor /\ [][NextRefactor]_vars

\* The client applies the edits, whose ranges all refer to the original text.
\* Offset of a position in a text; a line past the end is the end.
RECURSIVE LineOffset(_, _, _)
LineOffset(code, line, k) ==
    IF line = 0 \/ k > Len(code)
    THEN k - 1
    ELSE LineOffset(code, IF code[k] = NL THEN line - 1 ELSE line, k + 1)

OffsetOf(code, pos) ==
    LET o == LineOffset(code, pos.line, 1) + pos.character
    IN  IF o > Len(code) THEN Len(code) ELSE o

RECURSIVE ApplyFrom(_, _, _, _)
ApplyFrom(code, es, k, at) ==
    IF k > Len(es)
    THEN SubSeq(code, at + 1, Len(code))
    ELSE SubSeq(code, at + 1, OffsetOf(code, es[k].range.start))
         \o es[k].new_text
         \o ApplyFrom(code, es, k + 1, OffsetOf(code, es[k].range.end))

ApplyEdits(code, es) == ApplyFrom(code, es, 1, 0)

\* ------------------------------------------------------------ the machine
Init ==
    /\ ServerInit
    /\ EditsIdle
    /\ RefactorIdle
    /\ CallsIdle

\* A handler's result becomes the next state, while Script identities last.
Done(st) == st.nextId <= MaxHandles + 1 /\ Commit(st)

\* textDocument/didOpen: put_document, then did_open = _validate.
DidOpen(U, V) ==
    \E uri \in U, text \in Texts, inp \in V :
        /\ ~IsOpen(documents, uri)
        /\ Done(_validate(
               Begin([St EXCEPT !.documents = put_document(@, uri, text)],
                     "didOpen", uri),
               uri, inp))

\* textDocument/didChange: update_document, then did_change.
DidChange(U) ==
    \E uri \in U, text \in Texts, ok \in BOOLEAN :
        /\ IsOpen(documents, uri)
        /\ Done(did_change(
               Begin([St EXCEPT !.documents = update_document(@, uri, text)],
                     "didChange", uri),
               uri, ok))

\* textDocument/willSave: pass.
WillSave(U) ==
    \E uri \in U :
        /\ IsOpen(documents, uri)
        /\ Done(Begin(St, "willSave", uri))

\* textDocument/didSave: _validate.
DidSave(U, V) ==
    \E uri \in U, inp \in V :
        /\ IsOpen(documents, uri)
        /\ Done(_validate(Begin(St, "didSave", uri), uri, inp))

\* textDocument/didClose: remove_document, then did_close.
DidClose(U) ==
    \E uri \in U :
        /\ IsOpen(documents, uri)
        /\ Done(did_close(
               Begin([St EXCEPT !.documents = remove_document(@, uri),
                                !.evicted[uri] = @ \cup Cached(scripts, uri)],
                     "didClose", uri),
               uri))

\* completion, hover, signature_help, definition, references and
\* document_symbol: each starts with get_script(ls, uri).
Query(U) ==
    \E uri \in U, ok \in BOOLEAN :
        /\ uri \in URIs
        /\ Done(get_script(Begin(St, "query", uri), uri, FALSE, ok))

\* code_action: nothing for a selection, else get_script(ls, uri).
CodeAction(U) ==
    \E uri \in U, selection \in BOOLEAN, ok \in BOOLEAN :
        /\ selection \in BOOLEAN
        /\ Done(IF selection
                THEN Begin(St, "codeAction", uri)
                ELSE get_script(Begin(St, "codeAction", uri), uri, FALSE, ok))

\* workspace/didChangeConfiguration
DidChangeConfiguration(U, V, S) ==
    \E settings \in S, inps \in [U -> V] :
        /\ settings \in S
        /\ Done(did_change_configuration(
                    [Begin(St, "didChangeConfiguration", <<>>)
                         EXCEPT !.notified = IF settings.present /\ settings.ns
                                             THEN settings.supplied ELSE {},
                                !.notification = settings],
                    settings, inps))

NextOver(U, V, VC, S) ==
    \/ DidOpen(U, V)
    \/ DidChange(U)
    \/ WillSave(U)
    \/ DidSave(U, V)
    \/ DidClose(U)
    \/ Query(U)
    \/ CodeAction(U)
    \/ DidChangeConfiguration(U, VC, S)

\* The server with two documents; the collaborators of a validation pass
\* answer with no findings.
Next == NextOver(URIs, CacheInputs, CacheInputs, CacheSettings)

Spec == Init /\ [][Next]_vars

\* The server with one document and every answer of the collaborators.
NextValidate ==
    NextOver({UriA}, ValidateInputs, ConfigPassInputs, SettingsRuns)

SpecValidate == Init /\ [][NextValidate]_vars

\* The server with two documents and every notification of a configuration
\* change, whose passes fail or find an undefined name.
NextSettings ==
    \/ DidOpen(URIs, CacheInputs)
    \/ DidClose(URIs)
    \/ DidChangeConfiguration(URIs, SettingsPassInputs, SettingsRuns)

SpecSettings == Init /\ [][NextSettings]_vars

\* The server with one document, every notification of a configuration
\* change, and passes that fail, stop at a syntax error, or run every checker.
NextConfig ==
    NextOver({UriA}, ConfigPassInputs, ConfigPassInputs, SettingsRuns)

SpecConfig == Init /\ [][NextConfig]_vars

\* --------------------------------------------- functions that keep no state
\* What mypy prints in one run: up to MaxLines lines of every kind.
MypyLines == {LineError, LineNote, LineShort, LineOther, LineBadRow}
MypyOutputs == SeqsUpTo(MypyLines, MaxLines)

MypyCalls == {[fn |-> "_mypy_check", lines |-> ls] : ls \in MypyOutputs}

\* The documents and the registered folders _get_workspace_folder_path meets.
DocURIs == {UriA, UriB, <<SCHEME, "a", "b", "x">>}
FolderCandidates ==
    {<<SCHEME>>, <<SCHEME, "a">>, <<SCHEME, "a", "b">>, <<SCHEME, "b", "x">>}
CallRootPath == <<"r">>

FolderCalls ==
    {[fn |-> "_get_workspace_folder_path", uri |-> u,
      ls |-> [folders |-> F, root_path |-> CallRootPath]] :
        u \in DocURIs, F \in SUBSET FolderCandidates}

\* The lines of a script, with their terminators (script._code_lines, and
\* self.lines of the style checker).
CR == "\r"
CodeLineRuns ==
    {<<<<"a", "b", NL>>, <<"c">>>>, <<<<"a", CR, NL>>, <<NL>>, <<>>>>}

\* line.rstrip('\n\r')
RECURSIVE rstrip(_)
rstrip(line) ==
    IF line # <<>> /\ line[Len(line)] \in {NL, CR}
    THEN rstrip(SubSeq(line, 1, Len(line) - 1))
    ELSE line

\* PyflakesReporter._get_codeline; `line` counts from 0.
_get_codeline(code_lines, line) == rstrip(code_lines[line + 1])

PositionAt(line, character) == [line |-> line, character |-> character]
RangeFromTo(from, to) == [start |-> from, end |-> to]

\* The range of the Diagnostic PyflakesReporter.syntaxError appends;
\* offset is <<>> for None.
syntaxError(code_lines, lineno, offset) ==
    LET line == lineno - 1
        col == IF offset = <<>> \/ offset[1] = 0 THEN 0 ELSE offset[1]
    IN  RangeFromTo(PositionAt(line, col),
                    PositionAt(line,
                               Len(_get_codeline(code_lines, line)) - col))

\* The range of the Diagnostic PyflakesReporter.flake appends.
flake(code_lines, lineno, col) ==
    LET line == lineno - 1
    IN  RangeFromTo(PositionAt(line, col),
                    PositionAt(line, Len(_get_codeline(code_lines, line))))

\* The range of the Diagnostic CodestyleReport.error appends.
error(lines, lineno, offset) ==
    LET line == lineno - 1
    IN  RangeFromTo(PositionAt(line, offset),
                    PositionAt(line, Len(rstrip(lines[line + 1]))))

\* The reporter's callbacks, for every line and every column within it.
Columns(ls, n) == 0..Len(rstrip(ls[n]))

RangeCallsAt(ls, n) ==
    {[fn |-> f, code_lines |-> ls, lineno |-> n, col |-> <<c>>] :
        f \in {"flake", "error", "syntaxError"}, c \in Columns(ls, n)}
    \cup {[fn |-> "syntaxError", code_lines |-> ls, lineno |-> n, col |-> <<>>]}

RangeCalls ==
    UNION {UNION {RangeCallsAt(ls, n) : n \in 1..Len(ls)} : ls \in CodeLineRuns}

\* _DOCUMENT_SYMBOL_KINDS.get(name.type, types.SymbolKind.Null)
_DOCUMENT_SYMBOL_KINDS(type) ==
    CASE type = "module" -> "Module"
      [] type = "class" -> "Class"
      [] type = "function" -> "Function"
      [] type = "statement" -> "Variable"
      [] type = "instance" -> "Variable"
      [] type = "_pseudotreenameclass" -> "Class"
      [] OTHER -> "Null"

\* types.DocumentSymbol(name.name, kind, r, r, children=children or None);
\* the two ranges, which depend on the name's own position only, are left out.
DocumentSymbol(name, children) ==
    [name |-> name.name, kind |-> _DOCUMENT_SYMBOL_KINDS(name.type),
     children |-> children]

\* No name: the `current` of the outermost call.
NoName == [name |-> 0, parent |-> 0, type |-> "module"]

\* _get_document_symbols(code_lines, names, current): [result, names], names
\* being what the call leaves of the list it shares with its caller. The
\* while loop ends when the list is empty, or breaks at a name whose parent
\* is not current; a name it pops is skipped when a param, else the
\* recursive call takes its children off the list first.
RECURSIVE _get_document_symbols(_, _)
_get_document_symbols(names, current) ==
    IF names = <<>>
    THEN [result |-> <<>>, names |-> names]
    ELSE IF current # NoName /\ Head(names).parent # current.name
    THEN [result |-> <<>>, names |-> names]
    ELSE LET name == Head(names)
         IN  IF name.type = "param"
             THEN _get_document_symbols(Tail(names), current)
             ELSE LET children == _get_document_symbols(Tail(names), name)
                      rest == _get_document_symbols(children.names, current)
                  IN  [result |-> <<DocumentSymbol(name, children.result)>>
                                      \o rest.result,
                       names |-> rest.names]

\* _document_symbol_hierarchy(uri, code_lines, names)
_document_symbol_hierarchy(names) == _get_document_symbols(names, NoName)

\* script.get_names(all_scopes=True): names in order of appearance. name.name
\* is the place in the list; name.parent is the place of name.parent(), 0
\* when that is the module or another scope without a name in the list. A
\* parent comes before its children and is a function; a param has one.
NameTypes == {"function", "statement", "param"}

\* The names that can follow the names ns.
NextNames(ns) ==
    {n \in [name : {Len(ns) + 1},
            parent : {0} \cup {i \in 1..Len(ns) : ns[i].type = "function"},
            type : NameTypes] :
        n.type = "param" => n.parent # 0}

RECURSIVE NameListsOf(_)
NameListsOf(n) ==
    IF n = 0
    THEN {<<>>}
    ELSE UNION {{Append(ns, name) : name \in NextNames(ns)} :
                   ns \in NameListsOf(n - 1)}

NameLists == UNION {NameListsOf(n) : n \in 1..MaxNames}

SymbolCalls == {[fn |-> "_document_symbol_hierarchy", names |-> ns] :
                   ns \in NameLists}

Calls == MypyCalls \cup FolderCalls \cup RangeCalls \cup SymbolCalls

\* The for loop of _mypy_check over lines[0].split('\n'), result being empty.
CallMypyParse ==
    /\ call.fn = "_mypy_check"
    /\ ~out.done
    /\ out' = [done |-> TRUE, value |-> ParseMypyLines(call.lines, <<>>)]
    /\ UNCHANGED call

CallFolderPath ==
    /\ call.fn = "_get_workspace_folder_path"
    /\ ~out.done
    /\ out' = [done |-> TRUE,
               value |-> _get_workspace_folder_path(call.ls, call.uri)]
    /\ UNCHANGED call

CallFlake ==
    /\ call.fn = "flake"
    /\ ~out.done
    /\ out' = [done |-> TRUE,
               value |-> flake(call.code_lines, call.lineno, call.col[1])]
    /\ UNCHANGED call

CallSyntaxError ==
    /\ call.fn = "syntaxError"
    /\ ~out.done
    /\ out' = [done |-> TRUE,
               value |-> syntaxError(call.code_lines, call.lineno, call.col)]
    /\ UNCHANGED call

CallStyleError ==
    /\ call.fn = "error"
    /\ ~out.done
    /\ out' = [done |-> TRUE,
               value |-> error(call.code_lines, call.lineno, call.col[1])]
    /\ UNCHANGED call

CallDocumentSymbols ==
    /\ call.fn = "_document_symbol_hierarchy"
    /\ ~out.done
    /\ out' = [done |-> TRUE, value |-> _document_symbol_hierarchy(call.names)]
    /\ UNCHANGED call

InitCalls ==
    /\ ServerInit
    /\ EditsIdle
    /\ RefactorIdle
    /\ call \in Calls
    /\ out = Pending

NextCalls ==
    \/ CallMypyParse /\ UNCHANGED <<svars, evars, rvars>>
    \/ CallFolderPath /\ UNCHANGED <<svars, evars, rvars>>
    \/ CallFlake /\ UNCHANGED <<svars, evars, rvars>>
    \/ CallSyntaxError /\ UNCHANGED <<svars, evars, rvars>>
    \/ CallStyleError /\ UNCHANGED <<svars, evars, rvars>>
    \/ CallDocumentSymbols /\ UNCHANGED <<svars, evars, rvars>>

\* One call of one of these functions, for every argument.
SpecCalls == InitCalls /\ [][NextCalls]_vars

\* ------------------------------------------------------------------ claims
PerDocument(o) == o.uri \in URIs
ValidationOps == {"didOpen", "didSave"}

\* The handler that ran last ended with a validation pass that reached its
\* end: did_open, did_save, or did_change_configuration (its last document).
PassEnded ==
    /\ ~raised
    /\ \/ op.name \in ValidationOps
       \/ op.name = "didChangeConfiguration" /\ stages # <<>>
PassUri ==
    IF op.name \in ValidationOps THEN op.uri ELSE documents[Len(documents)].uri
LastPublished == pubs[Len(pubs)]

\* C1: applying the edits _get_text_edits returns to the old content, every
\* range read against the old content, yields the new content.
C1_EditsRebuildNew ==
    pc = "done" => ApplyEdits(old_code, edits) = new_code

C1_Witness ==
    /\ pc = "done"
    /\ Len(edits) = 2
    /\ edits[1].range.start # edits[1].range.end
    /\ edits[1].new_text # <<>>
    /\ ApplyEdits(old_code, edits) = new_code

\* C2: whenever the cache holds a handle for a document, the handle was built
\* from the text the document store holds for that document now.
C2_HandleBoundToCurrentText ==
    \A u \in URIs :
        scripts[u] # None => scripts[u].code = Source(documents, u)

\* C3: when constructing the handle fails inside get_script, the failure
\* reaches the caller and the cache holds no entry for that document.
C3_FailureLeavesNoEntry ==
    (raised /\ PerDocument(op)) => scripts[op.uri] = None

\* C4: a validation pass whose handle reports a syntax error publishes the
\* syntax diagnostics only and runs no other checker.
C4_SyntaxShortCircuit ==
    (PassEnded /\ stages[1].diags # <<>>) =>
        /\ Len(stages) = 1
        /\ stages[1].name = "jedi"
        /\ pubs # <<>>
        /\ LastPublished = [uri |-> PassUri, diags |-> stages[1].diags]
        /\ published[PassUri] = [has |-> TRUE, diags |-> stages[1].diags]
        /\ \A i \in 1..Len(published[PassUri].diags) :
               published[PassUri].diags[i].source = "jedi"
        /\ op.name \in ValidationOps => Len(pubs) = 1

C4_Witness ==
    /\ op.name = "didSave"
    /\ ~raised
    /\ stages[1].diags # <<>>
    /\ config["mypy_enabled"]
    /\ published[op.uri].diags = stages[1].diags

\* C5: handling a notification or request for one document, failing or not,
\* leaves the cached handle of every other document as it was.
C5_OtherDocumentsUntouched ==
    [][\A u \in URIs :
          (PerDocument(op') /\ op'.uri # u) => scripts'[u] = scripts[u]]_vars

C5_Witness ==
    /\ op.name = "didChange"
    /\ raised
    /\ \E u \in URIs : u # op.uri /\ scripts[u] # None

C7_CloseEvicts ==
    [][op'.name = "didClose" =>
          /\ scripts'[op'.uri] = None
          /\ ~raised'
          /\ \A u \in URIs : u # op'.uri => scripts'[u] = scripts[u]
          /\ scripts[op'.uri] = None => scripts' = scripts]_vars

C7_Witness ==
    /\ op.name = "didClose"
    /\ evicted[op.uri] = {}
    /\ \E u \in URIs : evicted[u] # {} /\ scripts[u] = None

\* C8: a handle that was cached when its document was closed is never cached
\* or returned again: get_script after didClose constructs a new one.
C8_EvictedNeverReturned ==
    \A u \in URIs :
        /\ scripts[u] # None => scripts[u].id \notin evicted[u]
        /\ (op.uri = u /\ ret # NotCalled) => ret.id \notin evicted[u]

C8_Witness ==
    /\ op.name = "query"
    /\ evicted[op.uri] # {}
    /\ ret = scripts[op.uri]
    /\ scripts[op.uri] # None

StageDiags(log, name) ==
    IF \E i \in 1..Len(log) : log[i].name = name
    THEN (CHOOSE e \in Range(log) : e.name = name).diags
    ELSE <<>>

\* C9: a validation pass that reaches its end publishes once, for its
\* document: the syntax diagnostics if there are any, else the findings of
\* pyflakes, pycodestyle and mypy in this order, empty or not; this set is
\* what the client then holds.
C9_PublishesOnce ==
    PassEnded =>
        /\ pubs # <<>>
        /\ IF op.name \in ValidationOps
           THEN Len(pubs) = 1
           ELSE /\ Len(pubs) = Len(documents)
                /\ \A i \in 1..Len(pubs) : pubs[i].uri = documents[i].uri
        /\ LastPublished.uri = PassUri
        /\ LastPublished.diags =
               IF StageDiags(stages, "jedi") # <<>>
               THEN StageDiags(stages, "jedi")
               ELSE StageDiags(stages, "pyflakes")
                    \o StageDiags(stages, "pycodestyle")
                    \o StageDiags(stages, "mypy")
        /\ published[PassUri] = [has |-> TRUE, diags |-> LastPublished.diags]
        /\ \A i \in 1..Len(stages) :
               stages[i].name =
                   <<"jedi", "pyflakes", "pycodestyle", "mypy">>[i]

C9_Witness ==
    /\ op.name = "didSave"
    /\ ~raised
    /\ Len(stages) = 4
    /\ pubs = <<[uri |-> op.uri, diags |-> <<>>]>>

\* C10: when the enabled mypy stage fails (it raises, or mypy writes to its
\* error stream), a message of warning level is shown, the pass publishes, and
\* the published set holds none of the mypy stage's findings.
C10_MypyFailureRecovered ==
    (/\ op.name \in ValidationOps
     /\ ~raised
     /\ Len(stages) = 4
     /\ stages[4].outcome # "ok") =>
        /\ msgs = <<"Warning">>
        /\ Len(pubs) = 1
        /\ \A i \in 1..Len(pubs[1].diags) : pubs[1].diags[i].source # "mypy"

\* A line of the form path:row:column:severity:message.
WellFormed(line) == line.fields >= 5 /\ line.numeric

\* One diagnostic for each well-formed line of the target file, in order.
MypyFindings(lines) ==
    LET own == SelectSeq(lines, LAMBDA l : WellFormed(l) /\ l.own)
    IN  [i \in 1..Len(own) |->
            Diagnostic("mypy",
                       IF own[i].err_type = "note" THEN "Hint" ELSE "Warning",
                       own[i].err_type)]

\* C11: parsing mypy's output skips each malformed line and each line of
\* another file and goes on: the parse does not fail, and every well-formed
\* line of the target file yields one diagnostic, a hint for a note and a
\* warning otherwise.
C11_MalformedLinesSkipped ==
    (call.fn = "_mypy_check" /\ out.done) =>
        /\ ~out.value.raised
        /\ out.value.result = MypyFindings(call.lines)

\* The runs of the stream that have ended.
ClosedRuns == IF RunOpen(runs) THEN Len(runs) - 1 ELSE Len(runs)

\* C12: the ranges of the edits are lines of the original text, in increasing
\* order and apart: an edit starts at or before its end, and ends on a line
\* strictly before the line the next edit starts on.
C12_RangesOrderedDisjoint ==
    /\ \A i \in 1..Len(edits) :
           /\ 0 <= edits[i].range.start.line
           /\ edits[i].range.start.line <= edits[i].range.end.line
           /\ edits[i].range.end.line <= Len(old_lines)
    /\ \A i \in 1..(Len(edits) - 1) :
           edits[i].range.end.line < edits[i + 1].range.start.line

C12_Witness ==
    /\ pc = "done"
    /\ Len(edits) = 2
    /\ edits[1].range.start.line < edits[1].range.end.line
    /\ edits[2].range.start.line = edits[1].range.end.line + 1

\* C13: a changed run with removed lines yields exactly one edit, from column
\* 0 of the first removed line to column 0 of the line after the last removed
\* line, whose text is the run's inserted lines joined; the text is empty
\* when the run only removes.
C13_RemovedRunOneEdit ==
    /\ Len(edits) = ClosedRuns
    /\ \A i \in 1..Len(edits) :
           runs[i].removed > 0 =>
               edits[i] = TextEdit([line |-> runs[i].at, character |-> 0],
                                   [line |-> runs[i].at + runs[i].removed,
                                    character |-> 0],
                                   Join(runs[i].inserted))

C13_Witness ==
    /\ pc = "done"
    /\ Len(edits) = 2
    /\ runs[1].removed > 0 /\ runs[1].inserted # <<>> /\ ~runs[1].mixed
    /\ runs[2].removed > 0 /\ runs[2].inserted = <<>>
    /\ edits[2].new_text = <<>>

\* C14: a changed run with inserted lines only yields exactly one edit, empty
\* at column 0 of the cursor line, whose text is the inserted lines joined;
\* the cursor counts the lines of the original only, so inserted lines do not
\* advance it.
C14_InsertedRunZeroWidth ==
    /\ line_number = consumed.old
    /\ Len(edits) = ClosedRuns
    /\ \A i \in 1..Len(edits) :
           runs[i].removed = 0 =>
               /\ edits[i].range.start = [line |-> runs[i].at, character |-> 0]
               /\ edits[i].range.end = edits[i].range.start
               /\ edits[i].new_text = Join(runs[i].inserted)

C14_Witness ==
    /\ pc = "done"
    /\ Len(edits) = 2
    /\ runs[1].removed = 0 /\ runs[1].at = 0
    /\ runs[2].removed = 0 /\ runs[2].at = Len(old_lines) - 1
    /\ edits[2].range.start = edits[2].range.end

\* C15: a stream of unchanged lines only, which is what diffing a content
\* against itself yields, makes _get_text_edits return no edit.
C15_SelfDiffNoEdits ==
    /\ runs = <<>> => edits = <<>>
    /\ (pc = "done" /\ old_code = new_code) => edits = <<>>

C15_Witness ==
    /\ pc = "done"
    /\ old_code = new_code
    /\ Len(old_lines) >= 2
    /\ consumed.old = Len(old_lines)
    /\ edits = <<>>

\* C19: a changed run in which an inserted line comes before a removed line
\* still yields exactly one edit: its range is the run's removed lines and its
\* text all the run's inserted lines in the order of the stream.
C19_MixedRunOneEdit ==
    /\ Len(edits) = ClosedRuns
    /\ \A i \in 1..Len(edits) :
           runs[i].mixed =>
               /\ edits[i].range.start.line = runs[i].at
               /\ edits[i].range.end.line = runs[i].at + runs[i].removed
               /\ edits[i].range.start.character = 0
               /\ edits[i].range.end.character = 0
               /\ edits[i].new_text = Join(runs[i].inserted)

C19_Witness ==
    /\ pc = "loop"
    /\ kind = " "
    /\ Len(edits) = 1
    /\ runs[1].mixed
    /\ runs[1].at > 0
    /\ Len(runs[1].inserted) < runs[1].removed

\* The changed files whose new content differs from the old.
ReallyChanged == SelectSeq(refactoring.files, LAMBDA f : f.old # f.new)

\* C16: code_action's edit has exactly one group for each changed file with a
\* non-empty edit list, in order, and none for a file whose new content equals
\* its old content; code_action returns None for a selection, for a
\* RefactoringError and when there is no group, never an action without
\* groups.
C16_OnlyNonEmptyGroups ==
    (pc = "returned" /\ ~raised) =>
        /\ params.selection => action = ReturnedNone
        /\ refactoring.error => action = ReturnedNone
        /\ Len(document_changes) = Len(ReallyChanged)
        /\ \A i \in 1..Len(document_changes) :
               /\ document_changes[i].uri = from_fs_path(ReallyChanged[i].fn)
               /\ document_changes[i].edits # <<>>
               /\ ApplyEdits(ReallyChanged[i].old, document_changes[i].edits)
                      = ReallyChanged[i].new
        /\ document_changes = <<>> => action = ReturnedNone
        /\ document_changes # <<>> =>
               action = InlineVariable(document_changes)

C16_Witness ==
    /\ pc = "returned"
    /\ Len(refactoring.files) = 2
    /\ refactoring.files[1].old = refactoring.files[1].new
    /\ Len(document_changes) = 1
    /\ document_changes[1].uri = from_fs_path(refactoring.files[2].fn)
    /\ Len(action.actions) = 1

\* How many times a handler computed the entry of a cache for a folder.
TimesComputed(log, cache, folder) ==
    Cardinality({i \in 1..Len(log) :
                    log[i] = [cache |-> cache, folder |-> folder]})

\* C17: every cached style options entry was computed from the current value
\* of pycodestyle_config; a notification that supplies pycodestyle_config
\* leaves no older style entry, one that supplies mypy_enabled no older mypy
\* config entry; and a style entry that is cached is not computed again
\* until a notification supplies pycodestyle_config.
C17_CachesFollowConfig ==
    [][\A f \in FolderPaths :
          /\ pycodestyleOptions'[f] # NoOptions =>
                 pycodestyleOptions'[f] =
                     StyleGuideOptions(f, config'["pycodestyle_config"])
          /\ ("pycodestyle_config" \in notified'
                  /\ pycodestyleOptions'[f] # NoOptions) =>
                 TimesComputed(computed', "pycodestyle", f) = 1
          /\ ("mypy_enabled" \in notified' /\ mypyConfigs'[f] # NoConfig) =>
                 TimesComputed(computed', "mypy", f) = 1
          /\ ("pycodestyle_config" \notin notified'
                  /\ pycodestyleOptions[f] # NoOptions) =>
                 /\ pycodestyleOptions'[f] = pycodestyleOptions[f]
                 /\ TimesComputed(computed', "pycodestyle", f) = 0
          /\ TimesComputed(computed', "pycodestyle", f) <= 1]_vars

C17_Witness ==
    /\ op.name = "didSave"
    /\ ~raised
    /\ Len(stages) = 4
    /\ computed = <<>>
    /\ config["pycodestyle_config"] = "setup.cfg"
    /\ \E f \in FolderPaths :
           /\ pycodestyleOptions[f] = StyleGuideOptions(f, "setup.cfg")
           /\ mypyConfigs[f] # NoConfig

\* C18: _get_workspace_folder_path returns the path of the longest registered
\* folder URI the document URI starts with, and the workspace root path when
\* the document URI starts with none.
C18_LongestPrefixFolder ==
    (call.fn = "_get_workspace_folder_path" /\ out.done) =>
        LET matching == {f \in call.ls.folders : IsPrefix(f, call.uri)}
        IN  IF matching = {}
            THEN out.value = call.ls.root_path
            ELSE \E f \in matching :
                    /\ \A g \in matching : Len(g) <= Len(f)
                    /\ out.value = to_fs_path(f)

C18_Witness ==
    /\ call.fn = "_get_workspace_folder_path"
    /\ out.done
    /\ call.ls.folders = FolderCandidates
    /\ call.uri = <<SCHEME, "a", "b", "x">>
    /\ out.value = <<"a", "b">>

\* C20: the range of a diagnostic of the pyflakes reporter (finding or syntax
\* error) and of the style checker starts at the reported column and ends at
\* the end of that line, its length without terminator; so it never ends
\* before it starts.
C20_RangeToEndOfLine ==
    (call.fn \in {"flake", "syntaxError", "error"} /\ out.done) =>
        LET line == call.lineno - 1
            col == IF call.col = <<>> THEN 0 ELSE call.col[1]
            len == Len(rstrip(call.code_lines[call.lineno]))
        IN  /\ out.value.start = [line |-> line, character |-> col]
            /\ out.value.end = [line |-> line, character |-> len]
            /\ out.value.start.character <= out.value.end.character

\* The handlers that call _validate.
Publishing == {"didOpen", "didSave", "didChangeConfiguration"}

\* A handler outside Publishing has just run and sent the client nothing.
C21_Silent ==
    op'.name \notin Publishing => pubs' = <<>> /\ published' = published

\* A didChange has just rebuilt the handle of its document from the new text.
C21_Rebuilds ==
    (op'.name = "didChange" /\ ~raised') =>
        /\ ret'.id = nextId
        /\ ret'.code = Source(documents', op'.uri)
        /\ scripts'[op'.uri] = ret'

\* A didSave that follows a didChange of the same document has published
\* diagnostics computed from the handle that didChange rebuilt; when that
\* didChange raised and left no handle, from one of the text it delivered.
C21_SaveAfterChange ==
    (/\ op.name = "didChange"
     /\ op'.name = "didSave"
     /\ op'.uri = op.uri
     /\ pubs' # <<>>) =>
        /\ ~raised => ret' = ret
        /\ ret'.code = Source(documents, op.uri)

\* C21: diagnostics are published only by didOpen, didSave and a
\* configuration change; didChange rebuilds the handle and publishes nothing,
\* didClose, willSave and the queries publish nothing, and the diagnostics a
\* didSave publishes come from the handle the latest preceding didChange
\* rebuilt.
C21_SavePublishesFromRebuiltHandle ==
    [][C21_Silent /\ C21_Rebuilds /\ C21_SaveAfterChange]_vars

\* The keys of config whose change starts the validation passes.
Validating == {"pyflakes_errors", "pycodestyle_config", "mypy_enabled"}

\* The handler ran no validation pass.
NoPass ==
    /\ pubs' = <<>>
    /\ stages' = <<>>
    /\ ret' = NotCalled
    /\ ~raised'
    /\ published' = published
    /\ scripts' = scripts

\* The i-th publication of the handler belongs to the i-th document and was
\* computed with the configuration the handler left.
PassOf(i) ==
    /\ pubs'[i].uri = documents[i].uri
    /\ \A k \in 1..Len(pubs'[i].diags) :
           LET d == pubs'[i].diags[k]
           IN  d.source = "pyflakes" =>
                   d.severity = IF d.code \in config'["pyflakes_errors"]
                                THEN "Error" ELSE "Warning"

RECURSIVE Outline(_, _)
Outline(names, parent) ==
    LET under == SelectSeq(names, LAMBDA n : n.parent = parent
                                              /\ n.type # "param")
    IN  [i \in 1..Len(under) |->
            DocumentSymbol(under[i], Outline(names, under[i].name))]

\* C23: given the names in parent-before-children order, each nested name's
\* parent being in the list, _get_document_symbols consumes the whole list
\* and returns the tree in which every name that is no param is, exactly
\* once, a child of its parent's node (top level when the parent is not in
\* the list), siblings in list order, and no param appears.
C23_SymbolsFormOutline ==
    (call.fn = "_document_symbol_hierarchy" /\ out.done) =>
        /\ out.value.names = <<>>
        /\ out.value.result = Outline(call.names, 0)

====
